---- MODULE Spec2Model ----
(***************************************************************************)
(* A model of tfenv-rs: the version resolver (src/src/version.rs), the     *)
(* installer and its trust chain (src/src/installer.rs) and the exec       *)
(* dispatch (src/src/main.rs).                                             *)
(*                                                                         *)
(* Strings are sequences of one-character strings, so that the string      *)
(* operations of the code (starts_with, contains, trim, split, regular     *)
(* expressions, semver parsing and formatting) are computed, not assumed.  *)
(***************************************************************************)
EXTENDS Integers, Sequences, FiniteSets, TLC

VARIABLES
    env,      \* resolver inputs: environment variables, version files, *.tf files, remote index
    fs,       \* <config_dir>/versions: directory name -> directory state
    out,      \* outcome of the last resolve_version_name call
    net,      \* network fetches made so far (set of records)
    last,     \* record of the last install_version call
    proc      \* concurrent install_version invocations (per-process position)

vars == <<env, fs, out, net, last, proc>>

None == <<"none">>

(***************************************************************************)
(* Bounds of the model.                                                    *)
(***************************************************************************)
\* number of ancestors of the working directory that are probed (cwd included)
MaxDepth == 2
\* number of install_version calls made one after the other
(***************************************************************************)
(* Characters and strings.                                                 *)
(***************************************************************************)
Digits == <<"0", "1", "2", "3", "4", "5", "6", "7", "8", "9">>

Lower == <<"a", "b", "c", "d", "e", "f", "g", "h", "i", "j", "k", "l", "m",
           "n", "o", "p", "q", "r", "s", "t", "u", "v", "w", "x", "y", "z">>

IsDigit(c) == \E i \in 1..10 : Digits[i] = c

IsLower(c) == \E i \in 1..26 : Lower[i] = c

DigitVal(c) == (CHOOSE i \in 1..10 : Digits[i] = c) - 1

\* char::is_whitespace, for the characters the inputs use
IsSpace(c) == c \in {" ", "\n", "\t"}

\* ASCII order of the characters a prerelease identifier may hold
CharOrd(c) ==
    IF IsDigit(c) THEN 48 + DigitVal(c)
    ELSE IF IsLower(c) THEN 96 + (CHOOSE i \in 1..26 : Lower[i] = c)
    ELSE 45

Sub(s, i, j) == IF i > j THEN <<>> ELSE SubSeq(s, i, j)

\* str::starts_with
StartsWith(s, p) == Len(p) <= Len(s) /\ Sub(s, 1, Len(p)) = p

\* str::ends_with
EndsWith(s, p) == Len(p) <= Len(s) /\ Sub(s, Len(s) - Len(p) + 1, Len(s)) = p

\* str::contains
Contains(s, p) == \E i \in 1..(Len(s) - Len(p) + 1) : Sub(s, i, i + Len(p) - 1) = p

\* str::find of a pattern; 0 stands for None, otherwise the 1-based position
Find(s, p) ==
    IF Contains(s, p)
    THEN CHOOSE i \in 1..(Len(s) - Len(p) + 1) :
            /\ Sub(s, i, i + Len(p) - 1) = p
            /\ \A j \in 1..(i - 1) : Sub(s, j, j + Len(p) - 1) # p
    ELSE 0

\* str::rfind of a pattern; 0 stands for None
RFind(s, p) ==
    IF Contains(s, p)
    THEN CHOOSE i \in 1..(Len(s) - Len(p) + 1) :
            /\ Sub(s, i, i + Len(p) - 1) = p
            /\ \A j \in (i + 1)..(Len(s) - Len(p) + 1) : Sub(s, j, j + Len(p) - 1) # p
    ELSE 0

\* `F` applied to the value of x, which is computed once
Let1(x, F(_)) == CHOOSE r \in {F(y) : y \in {x}} : TRUE

\* length of the longest prefix of s whose characters satisfy P
RunLen(s, P(_)) ==
    IF \E i \in 1..Len(s) : ~P(s[i])
    THEN (CHOOSE i \in 1..Len(s) : ~P(s[i]) /\ \A j \in 1..(i - 1) : P(s[j])) - 1
    ELSE Len(s)

\* length of the longest suffix of s whose characters satisfy P
RunLenBack(s, P(_)) ==
    IF \E i \in 1..Len(s) : ~P(s[i])
    THEN Len(s) - (CHOOSE i \in 1..Len(s) : ~P(s[i]) /\ \A j \in (i + 1)..Len(s) : P(s[j]))
    ELSE Len(s)

\* str::trim_start
TrimStart(s) == Sub(s, RunLen(s, IsSpace) + 1, Len(s))

\* str::trim_end
TrimEnd(s) == Sub(s, 1, Len(s) - RunLenBack(s, IsSpace))

\* str::trim
Trim(s) == Let1(TrimStart(s), TrimEnd)

\* str::trim_start_matches(char): every leading occurrence is removed
TrimStartMatches(s, c) == Sub(s, RunLen(s, LAMBDA x : x = c) + 1, Len(s))

\* str::trim_end_matches(char): every trailing occurrence is removed
TrimEndMatches(s, c) == Sub(s, 1, Len(s) - RunLenBack(s, LAMBDA x : x = c))

\* str::split(char): the fields between occurrences of c (empty fields kept)
SplitOn(s, c) ==
    LET at == {i \in 1..Len(s) : s[i] = c}
        \* the position of the k-th separator; 0 and Len(s) + 1 bracket the string
        Pos(k) == IF k = 0 THEN 0
                  ELSE IF k > Cardinality(at) THEN Len(s) + 1
                  ELSE CHOOSE i \in at : Cardinality({j \in at : j < i}) = k - 1
    IN  [k \in 1..(Cardinality(at) + 1) |-> Sub(s, Pos(k - 1) + 1, Pos(k) - 1)]

\* str::split_whitespace: the maximal runs of non-whitespace characters
SplitWhitespace(s) ==
    LET starts == {i \in 1..Len(s) : ~IsSpace(s[i]) /\ (i = 1 \/ IsSpace(s[i - 1]))}
        Start(k) == CHOOSE i \in starts : Cardinality({j \in starts : j < i}) = k - 1
        End(i) == CHOOSE e \in i..Len(s) :
                    /\ \A j \in i..e : ~IsSpace(s[j])
                    /\ (e = Len(s) \/ IsSpace(s[e + 1]))
    IN  [k \in 1..Cardinality(starts) |-> Sub(s, Start(k), End(Start(k)))]

RECURSIVE StrToNatUpTo(_, _)
StrToNatUpTo(s, n) == IF n = 0 THEN 0 ELSE 10 * StrToNatUpTo(s, n - 1) + DigitVal(s[n])

\* u64::from_str on a run of digits
StrToNat(s) == StrToNatUpTo(s, Len(s))

RECURSIVE NatToStr(_)
\* Display of an unsigned integer
NatToStr(n) == IF n < 10 THEN <<Digits[n + 1]>> ELSE NatToStr(n \div 10) \o <<Digits[(n % 10) + 1]>>

AllDigits(s) == s # <<>> /\ \A i \in 1..Len(s) : IsDigit(s[i])

(***************************************************************************)
(* Regular expressions (the regex crate), for the syntax the program's own *)
(* patterns and the modelled requests use: ^ $ . \c [0-9] and a + suffix.  *)
(* Any other metacharacter makes the pattern invalid (Regex::new fails).   *)
(***************************************************************************)
RegexMeta == {"(", ")", "[", "]", "{", "}", "*", "?", "|", "+"}

ClassDigit == <<"[", "0", "-", "9", "]">>

\* the first atom of a non-empty pattern and the number of characters it takes
RegexFirst(p) ==
    LET c == Head(p)
        base ==
            IF c = "^" THEN [a |-> [k |-> "bol", c |-> "", plus |-> FALSE], n |-> 1]
            ELSE IF c = "$" THEN [a |-> [k |-> "eol", c |-> "", plus |-> FALSE], n |-> 1]
            ELSE IF c = "\\"
                 THEN IF Len(p) >= 2
                      THEN [a |-> [k |-> "lit", c |-> p[2], plus |-> FALSE], n |-> 2]
                      ELSE [a |-> [k |-> "bad", c |-> "", plus |-> FALSE], n |-> 1]
            ELSE IF c = "." THEN [a |-> [k |-> "any", c |-> "", plus |-> FALSE], n |-> 1]
            ELSE IF StartsWith(p, ClassDigit)
                 THEN [a |-> [k |-> "digit", c |-> "", plus |-> FALSE], n |-> 5]
            ELSE IF c \in RegexMeta
                 THEN [a |-> [k |-> "bad", c |-> "", plus |-> FALSE], n |-> 1]
            ELSE [a |-> [k |-> "lit", c |-> c, plus |-> FALSE], n |-> 1]
        rep == base.a.k \in {"lit", "any", "digit"} /\ Len(p) > base.n /\ p[base.n + 1] = "+"
    IN  IF rep THEN [a |-> [base.a EXCEPT !.plus = TRUE], n |-> base.n + 1] ELSE base

RECURSIVE RegexAtoms(_)
\* Regex::new: the pattern as a sequence of atoms
RegexAtoms(p) ==
    IF p = <<>> THEN <<>>
    ELSE Let1(RegexFirst(p),
              LAMBDA f : <<f.a>> \o Let1(Sub(p, f.n + 1, Len(p)), RegexAtoms))

\* Regex::new(p).is_ok()
RegexValid(p) == \A as \in {RegexAtoms(p)} : \A i \in 1..Len(as) : as[i].k # "bad"

AtomOk(a, c) ==
    CASE a.k = "lit" -> c = a.c
      [] a.k = "any" -> c # "\n"
      [] a.k = "digit" -> IsDigit(c)
      [] OTHER -> FALSE

RECURSIVE MatchHere(_, _, _)
\* whether the atoms match s from position j on
MatchHere(atoms, s, j) ==
    IF atoms = <<>> THEN TRUE
    ELSE LET a == Head(atoms)
             rest == Tail(atoms)
         IN  CASE a.k = "bol" -> j = 1 /\ MatchHere(rest, s, j)
               [] a.k = "eol" -> j = Len(s) + 1 /\ MatchHere(rest, s, j)
               [] a.k = "bad" -> FALSE
               [] OTHER ->
                    IF a.plus
                    THEN \E k \in j..Len(s) :
                            /\ \A i \in j..k : AtomOk(a, s[i])
                            /\ MatchHere(rest, s, k + 1)
                    ELSE j <= Len(s) /\ AtomOk(a, s[j]) /\ MatchHere(rest, s, j + 1)

\* Regex::is_match: an unanchored search
IsMatch(p, s) == \E as \in {RegexAtoms(p)} : \E j \in 1..(Len(s) + 1) : MatchHere(as, s, j)

(***************************************************************************)
(* semver::Version: parse, order, format.  Prereleases of the modelled     *)
(* inputs are single identifiers of digits and lower-case letters; no      *)
(* input carries build metadata.                                           *)
(***************************************************************************)
NoVersion == [ok |-> FALSE, major |-> 0, minor |-> 0, patch |-> 0, pre |-> <<>>]

NumericOk(s) == AllDigits(s) /\ (Len(s) = 1 \/ Head(s) # "0")

PreOk(s) ==
    /\ s # <<>>
    /\ \A i \in 1..Len(s) : IsDigit(s[i]) \/ IsLower(s[i])
    /\ (AllDigits(s) => NumericOk(s))

\* Version::parse
ParseVersion(s) ==
    LET i == Find(s, <<"-">>)
        core == IF i = 0 THEN s ELSE Sub(s, 1, i - 1)
        pre == IF i = 0 THEN <<>> ELSE Sub(s, i + 1, Len(s))
        Core(parts) ==
            IF /\ Len(parts) = 3
               /\ \A k \in 1..3 : NumericOk(parts[k])
               /\ (i # 0 => PreOk(pre))
            THEN [ok |-> TRUE, major |-> StrToNat(parts[1]), minor |-> StrToNat(parts[2]),
                  patch |-> StrToNat(parts[3]), pre |-> pre]
            ELSE NoVersion
    IN  Let1(SplitOn(core, "."), Core)

RECURSIVE LexLess(_, _)
LexLess(a, b) ==
    IF b = <<>> THEN FALSE
    ELSE IF a = <<>> THEN TRUE
    ELSE IF CharOrd(Head(a)) # CharOrd(Head(b)) THEN CharOrd(Head(a)) < CharOrd(Head(b))
    ELSE LexLess(Tail(a), Tail(b))

\* order of prereleases: none (a release) is greatest; numeric identifiers
\* are below alphanumeric ones
PreLess(a, b) ==
    IF a = <<>> THEN FALSE
    ELSE IF b = <<>> THEN TRUE
    ELSE IF AllDigits(a) /\ AllDigits(b) THEN StrToNat(a) < StrToNat(b)
    ELSE IF AllDigits(a) THEN TRUE
    ELSE IF AllDigits(b) THEN FALSE
    ELSE LexLess(a, b)

\* Ord for Version
VersionLess(a, b) ==
    IF a.major # b.major THEN a.major < b.major
    ELSE IF a.minor # b.minor THEN a.minor < b.minor
    ELSE IF a.patch # b.patch THEN a.patch < b.patch
    ELSE PreLess(a.pre, b.pre)

\* Display for Version
FormatVersion(v) ==
    NatToStr(v.major) \o <<".">> \o NatToStr(v.minor) \o <<".">> \o NatToStr(v.patch)
        \o (IF v.pre = <<>> THEN <<>> ELSE <<"-">> \o v.pre)

\* sort(); reverse(); first(): the greatest candidate, formatted, or None
FirstOfSortedReversed(cands) ==
    Let1(cands, LAMBDA c : IF c = {} THEN None
                           ELSE FormatVersion(CHOOSE v \in c : \A w \in c : ~VersionLess(v, w)))

(***************************************************************************)
(* String literals of the program.                                         *)
(***************************************************************************)
Str_latest ==
    <<"l", "a", "t", "e", "s", "t">>

Str_min_required ==
    <<"m", "i", "n", "-", "r", "e", "q", "u", "i", "r", "e", "d">>

Str_latest_allowed ==
    <<"l", "a", "t", "e", "s", "t", "-", "a", "l", "l", "o", "w", "e", "d">>

DefaultRegex ==
    <<"^", "[", "0", "-", "9", "]", "+", "\\", ".", "[", "0", "-", "9", "]", "+", "\\", ".", "[", "0", "-", "9", "]", "+", "$">>

Str_terraform ==
    <<"t", "e", "r", "r", "a", "f", "o", "r", "m">>

Str_opentofu ==
    <<"o", "p", "e", "n", "t", "o", "f", "u">>

HrefPrefixTerraform ==
    <<"/", "t", "e", "r", "r", "a", "f", "o", "r", "m", "/">>

HrefTagOpentofu ==
    <<"/", "o", "p", "e", "n", "t", "o", "f", "u", "/", "o", "p", "e", "n", "t", "o", "f", "u", "/", "r", "e", "l", "e", "a", "s", "e", "s", "/", "t", "a", "g", "/", "v">>

RemoteTerraform ==
    <<"h", "t", "t", "p", "s", ":", "/", "/", "r", "e", "l", "e", "a", "s", "e", "s", ".", "h", "a", "s", "h", "i", "c", "o", "r", "p", ".", "c", "o", "m", "/", "t", "e", "r", "r", "a", "f", "o", "r", "m", "/">>

RemoteOpentofuIndex ==
    <<"h", "t", "t", "p", "s", ":", "/", "/", "g", "i", "t", "h", "u", "b", ".", "c", "o", "m", "/", "o", "p", "e", "n", "t", "o", "f", "u", "/", "o", "p", "e", "n", "t", "o", "f", "u", "/", "r", "e", "l", "e", "a", "s", "e", "s">>

RemoteOpentofuDownload ==
    <<"h", "t", "t", "p", "s", ":", "/", "/", "g", "i", "t", "h", "u", "b", ".", "c", "o", "m", "/", "o", "p", "e", "n", "t", "o", "f", "u", "/", "o", "p", "e", "n", "t", "o", "f", "u", "/", "r", "e", "l", "e", "a", "s", "e", "s", "/", "d", "o", "w", "n", "l", "o", "a", "d", "/">>

(***************************************************************************)
(* Constraint extractor (version.rs: min_required,                         *)
(* latest_allowed_to_requested).                                           *)
(*                                                                         *)
(* The working directory is a sequence of files in enumeration order.  A   *)
(* file is [tf, lines]: tf says its name ends with .tf or .tf.json.  A     *)
(* line is [decl, hash, spec]: decl says the line contains the word        *)
(* required_version, hash that the line holds a # (before the word, on a   *)
(* decl line), spec is the text between the line's first pair of quotes.   *)
(***************************************************************************)
RECURSIVE DeclFileLines(_)
\* the lines of `combined`: every *.tf / *.tf.json file's text, in order
DeclFileLines(files) ==
    IF files = <<>> THEN <<>>
    ELSE (IF Head(files).tf THEN Head(files).lines ELSE <<>>) \o DeclFileLines(Tail(files))

\* re_line's first capture, versions[0].  The match starts at the first line
\* start from which a required_version is reached without crossing a #, and
\* the greedy [^#]* (which also runs over line ends) takes the last such one.
FirstCapture(lines) ==
    LET Reach(p, q) == lines[q].decl /\ \A r \in p..q : ~lines[r].hash
        starts == {p \in 1..Len(lines) : \E q \in p..Len(lines) : Reach(p, q)}
    IN  IF starts = {} THEN None
        ELSE LET p == CHOOSE x \in starts : \A y \in starts : x <= y
                 ends == {q \in p..Len(lines) : Reach(p, q)}
                 q == CHOOSE x \in ends : \A y \in ends : y <= x
             IN  lines[q].spec

IsOpChar(c) == c \in {"~", "=", "!", "<", ">"}

\* [0-9]+(?:\.[0-9]+){0,2} at the head of s: the number of characters taken (0: no match)
NumTokenLen(s) ==
    LET \* (?:\.[0-9]+) at position i: the characters taken, 0 when it does not match
        More(i) == IF i <= Len(s) /\ s[i] = "."
                   THEN Let1(RunLen(Sub(s, i + 1, Len(s)), IsDigit),
                             LAMBDA d : IF d > 0 THEN d + 1 ELSE 0)
                   ELSE 0
    IN  Let1(RunLen(s, IsDigit), LAMBDA d1 :
            IF d1 = 0 THEN 0
            ELSE Let1(More(d1 + 1), LAMBDA m2 :
                    IF m2 = 0 THEN d1
                    ELSE Let1(More(d1 + m2 + 1), LAMBDA m3 : d1 + m2 + m3)))

\* (-[a-z]+[0-9]+)? at the head of s: the number of characters taken (0: absent)
PostLen(s) ==
    IF s # <<>> /\ Head(s) = "-"
    THEN Let1(RunLen(Tail(s), IsLower), LAMBDA a :
            Let1(RunLen(Sub(s, a + 2, Len(s)), IsDigit), LAMBDA b :
                IF a > 0 /\ b > 0 THEN 1 + a + b ELSE 0))
    ELSE 0

\* re_ver tried at position i of s: ([~=!<>]{0,2}\s*)([0-9]+(?:\.[0-9]+){0,2})(-[a-z]+[0-9]+)?
\* [ok, qualifier, num, post]: the groups 1, 2 and 3 of the match
ReVerAt(s, i) ==
    Let1(Sub(s, i, Len(s)), LAMBDA t :
    Let1(RunLen(t, IsOpChar), LAMBDA ops :
    Let1(IF ops > 2 THEN 2 ELSE ops, LAMBDA k :
    Let1(k + RunLen(Sub(t, k + 1, Len(t)), IsSpace), LAMBDA q :
    Let1(NumTokenLen(Sub(t, q + 1, Len(t))), LAMBDA n :
    Let1(PostLen(Sub(t, q + n + 1, Len(t))), LAMBDA m :
        [ok |-> ops <= 2 /\ n > 0,
         qualifier |-> Sub(t, 1, q),
         num |-> Sub(t, q + 1, q + n),
         post |-> Sub(t, q + n + 1, q + n + m)]))))))

\* re_ver.captures(first): the leftmost match
ReVer(s) ==
    Let1([i \in 1..Len(s) |-> ReVerAt(s, i)], LAMBDA at :
        IF \E i \in 1..Len(s) : at[i].ok
        THEN at[CHOOSE i \in 1..Len(s) : at[i].ok /\ \A j \in 1..(i - 1) : ~at[j].ok]
        ELSE [ok |-> FALSE, qualifier |-> <<>>, num |-> <<>>, post |-> <<>>])

\* the padding loop: while !pad_re.is_match(&found) { found.push_str(".0") }.
\* Each round adds a component, so a string that does not match after two
\* rounds never will: the loop does not end ("hang").
PadToThree(found) ==
    LET f1 == found \o <<".", "0">>
        f2 == f1 \o <<".", "0">>
    IN  IF IsMatch(DefaultRegex, found) THEN [st |-> "ok", val |-> found]
        ELSE IF IsMatch(DefaultRegex, f1) THEN [st |-> "ok", val |-> f1]
        ELSE IF IsMatch(DefaultRegex, f2) THEN [st |-> "ok", val |-> f2]
        ELSE [st |-> "hang", val |-> None]

\* a mutation of min_required: the `!=` qualifier is not looked at
min_required_NoNeCheck(files) ==
    Let1(FirstCapture(DeclFileLines(files)), LAMBDA first :
        IF first = None THEN [st |-> "none", val |-> None]
        ELSE Let1(ReVer(first), LAMBDA cap :
                IF ~cap.ok THEN [st |-> "none", val |-> None]
                ELSE PadToThree(cap.num \o cap.post)))

\* min_required: st is "ok" (Some), "none" (Ok(None)) or "hang"
min_required(files) ==
    Let1(FirstCapture(DeclFileLines(files)), LAMBDA first :
        IF first = None THEN [st |-> "none", val |-> None]
        ELSE Let1(ReVer(first), LAMBDA cap :
                IF ~cap.ok THEN [st |-> "none", val |-> None]
                ELSE IF StartsWith(TrimStart(cap.qualifier), <<"!", "=">>)
                     THEN [st |-> "none", val |-> None]
                ELSE PadToThree(cap.num \o cap.post)))

\* spec_line = String::new(): no line yet
NoLine == [decl |-> FALSE, hash |-> FALSE, spec |-> <<>>]

RECURSIVE SpecLine(_, _)
\* the loop of latest_allowed_to_requested: in every declaration file the first
\* line containing required_version is assigned to spec_line (the break leaves
\* the line loop only), so a later file's line replaces an earlier one's
SpecLine(files, cur) ==
    IF files = <<>> THEN cur
    ELSE LET f == Head(files)
             hits == {i \in 1..Len(f.lines) : f.lines[i].decl}
             nxt == IF f.tf /\ hits # {}
                    THEN f.lines[CHOOSE i \in hits : \A j \in hits : i <= j]
                    ELSE cur
         IN  Let1(nxt, LAMBDA n : SpecLine(Tail(files), n))

IsNumChar(c) == IsDigit(c) \/ c = "."

\* Regex [0-9.]+ .find(version_spec): the first run of digits and dots, or ""
VersionNum(s) ==
    IF \E i \in 1..Len(s) : IsNumChar(s[i])
    THEN Let1(Sub(s, RunLen(s, LAMBDA c : ~IsNumChar(c)) + 1, Len(s)),
              LAMBDA t : Sub(t, 1, RunLen(t, IsNumChar)))
    ELSE <<>>

\* a mutation of latest_allowed_to_requested: `~>` keeps the whole number as
\* the prefix (the rightmost component is not dropped)
latest_allowed_to_requested_NoDrop(files) ==
    Let1(SpecLine(files, NoLine), LAMBDA line :
    Let1(VersionNum(line.spec), LAMBDA version_num :
    Let1(TrimStart(line.spec), LAMBDA lead :
        IF ~line.decl THEN None
        ELSE IF StartsWith(lead, <<">">>) THEN Str_latest
        ELSE IF StartsWith(lead, <<"<", "=">>) \/ StartsWith(lead, <<"<">>) THEN version_num
        ELSE IF StartsWith(lead, <<"~", ">">>)
             THEN Str_latest \o <<":", "^">> \o version_num \o <<"\\", ".">>
        ELSE None)))

\* latest_allowed_to_requested: the mapped request, or None
latest_allowed_to_requested(files) ==
    Let1(SpecLine(files, NoLine), LAMBDA line :
    Let1(VersionNum(line.spec), LAMBDA version_num :
    Let1(TrimStart(line.spec), LAMBDA lead :
    Let1(RFind(version_num, <<".">>), LAMBDA pos :
        IF ~line.decl THEN None
        ELSE IF StartsWith(lead, <<">">>) THEN Str_latest
        ELSE IF StartsWith(lead, <<"<", "=">>) \/ StartsWith(lead, <<"<">>) THEN version_num
        ELSE IF StartsWith(lead, <<"~", ">">>) /\ pos # 0
             THEN Str_latest \o <<":", "^">> \o Sub(version_num, 1, pos - 1) \o <<"\\", ".">>
        ELSE None))))

(***************************************************************************)
(* Version resolver (version.rs).                                          *)
(*                                                                         *)
(* fs is [versions, tree]: versions says <config_dir>/versions exists,     *)
(* tree maps each entry name under it to [dir, bin]: dir says the entry is *)
(* a directory, bin is the binary file inside it (NoBin when absent).     *)
(* A result is [st, val, why, fetched]: st is "ok", "err" or "hang" (the   *)
(* call never returns), fetched says the remote index was requested.       *)
(***************************************************************************)
NoBin == [present |-> FALSE, content |-> <<>>, exec |-> FALSE]

Ok(v, fetched) == [st |-> "ok", val |-> v, why |-> "", fetched |-> fetched]

Err(why, fetched) == [st |-> "err", val |-> None, why |-> why, fetched |-> fetched]

Hang == [st |-> "hang", val |-> None, why |-> "", fetched |-> FALSE]

Upper == <<"A", "B", "C", "D", "E", "F", "G", "H", "I", "J", "K", "L", "M",
           "N", "O", "P", "Q", "R", "S", "T", "U", "V", "W", "X", "Y", "Z">>

\* str::to_lowercase
ToLowercase(s) ==
    [i \in 1..Len(s) |->
        IF \E k \in 1..26 : Upper[k] = s[i]
        THEN Lower[CHOOSE k \in 1..26 : Upper[k] = s[i]]
        ELSE s[i]]

\* env::var("TFENV_PRODUCT").unwrap_or("terraform").to_lowercase()
Product(e) == ToLowercase(IF e.product = None THEN Str_terraform ELSE e.product)

\* env::var("TFENV_REMOTE").unwrap_or_else(..) of latest_remote_matching
IndexRemote(e) ==
    IF e.remote # None THEN e.remote
    ELSE IF Product(e) = Str_opentofu THEN RemoteOpentofuIndex
    ELSE RemoteTerraform

\* env::var("TFENV_AUTO_INSTALL").unwrap_or("true")
AutoInstall(e) == IF e.auto = "unset" THEN "true" ELSE e.auto

\* the names of the directory entries that latest_local_matching keeps
LocalCandidates(f, regex) ==
    {n \in DOMAIN f.tree : f.tree[n].dir /\ IsMatch(regex, n) /\ ParseVersion(n) # NoVersion}

\* a mutation of latest_local_matching: the reverse() after the sort is lost
latest_local_matching_NoReverse(f, regex) ==
    IF ~f.versions THEN [st |-> "ok", val |-> None]
    ELSE IF ~RegexValid(regex) THEN [st |-> "err", val |-> None]
    ELSE LET cands == {ParseVersion(n) : n \in LocalCandidates(f, regex)}
         IN  [st |-> "ok",
              val |-> IF cands = {} THEN None
                      ELSE FormatVersion(CHOOSE v \in cands :
                                            \A w \in cands : ~VersionLess(w, v))]

\* latest_local_matching
latest_local_matching(f, regex) ==
    IF ~f.versions THEN [st |-> "ok", val |-> None]
    ELSE IF ~RegexValid(regex) THEN [st |-> "err", val |-> None]
    ELSE [st |-> "ok",
          val |-> FirstOfSortedReversed({ParseVersion(n) : n \in LocalCandidates(f, regex)})]

\* the version text of an anchor target, or None when the link is skipped
HrefVersion(product, href) ==
    IF product = Str_terraform
    THEN IF StartsWith(href, HrefPrefixTerraform)
         THEN Let1(Sub(href, Len(HrefPrefixTerraform) + 1, Len(href)),
                   LAMBDA v : TrimEndMatches(v, "/"))
         ELSE None
    ELSE IF product = Str_opentofu
    THEN Let1(Find(href, HrefTagOpentofu), LAMBDA pos :
            IF pos # 0
            THEN Let1(Sub(href, pos + Len(HrefTagOpentofu), Len(href)),
                      LAMBDA v : TrimEndMatches(v, "/"))
            ELSE None)
    ELSE None

\* latest_remote_matching: the index is fetched, then the pattern compiled
latest_remote_matching(e, regex) ==
    IF ~e.index.ok THEN [st |-> "err", val |-> None]
    ELSE IF ~RegexValid(regex) THEN [st |-> "err", val |-> None]
    ELSE Let1(Product(e), LAMBDA product :
         Let1({HrefVersion(product, h) : h \in e.index.hrefs} \ {None}, LAMBDA vs :
            [st |-> "ok",
             val |-> FirstOfSortedReversed(
                        {ParseVersion(v) : v \in {x \in vs : IsMatch(regex, x)}}
                            \ {NoVersion})]))

\* the pattern of a latest request: the text after the first ':', or the default
LatestRegex(req) ==
    IF Contains(req, <<":">>) THEN Sub(req, Find(req, <<":">>) + 1, Len(req))
    ELSE DefaultRegex

\* the `if req.starts_with("latest")` block of resolve_requested
ResolveLatest(req, e, f) ==
    Let1(LatestRegex(req), LAMBDA regex :
    Let1(latest_local_matching(f, regex), LAMBDA local :
        IF local.st = "err" THEN Err("invalid regex", FALSE)
        ELSE IF local.val # None THEN Ok(local.val, FALSE)
        ELSE IF AutoInstall(e) = "true"
             THEN Let1(latest_remote_matching(e, regex), LAMBDA remote :
                    IF remote.st = "err" THEN Err("remote failed", TRUE)
                    ELSE IF remote.val # None THEN Ok(remote.val, TRUE)
                    ELSE Err("no remote match", TRUE))
        ELSE Err("no installed match and auto-install disabled", FALSE)))

\* `if req.starts_with('v') { req = req.trim_start_matches('v') }`
StripV(requested) ==
    IF StartsWith(requested, <<"v">>) THEN TrimStartMatches(requested, "v") ELSE requested

\* resolve_requested
resolve_requested(requested, e, f) ==
    LET \* `if req == "latest-allowed" { if let Some(mapped) = .. { req = mapped } }`
        Mapped(req0) ==
            IF req0 = Str_latest_allowed
            THEN Let1(latest_allowed_to_requested(e.tf),
                      LAMBDA mapped : IF mapped # None THEN mapped ELSE req0)
            ELSE req0
    IN  Let1(StripV(requested), LAMBDA req0 :
            IF req0 = Str_min_required
            THEN Let1(min_required(e.tf), LAMBDA min :
                    IF min.st = "ok" THEN Ok(min.val, FALSE)
                    ELSE IF min.st = "hang" THEN Hang
                    ELSE Err("min-required could not be determined", FALSE))
            ELSE Let1(Mapped(req0), LAMBDA req :
                    IF StartsWith(req, Str_latest) THEN ResolveLatest(req, e, f)
                    ELSE Ok(req, FALSE)))

\* find_local_version_file: the index in e.chain (1 is the working directory,
\* then its parents up to the root) of the first directory holding a
\* .terraform-version, or 0
find_local_version_file(e) ==
    IF \E i \in 1..Len(e.chain) : e.chain[i].present
    THEN CHOOSE i \in 1..Len(e.chain) :
            e.chain[i].present /\ \A j \in 1..(i - 1) : ~e.chain[j].present
    ELSE 0

\* a mutation of resolve_version_name: the home file is looked at before the
\* working directory's ancestors
resolve_version_name_HomeFirst(e, f) ==
    LET Call(src, req, reads) ==
            [source |-> src, requested |-> req, reads |-> reads,
             res |-> resolve_requested(req, e, f)]
        Fail(src, reads) ==
            [source |-> src, requested |-> None, reads |-> reads,
             res |-> Err("read failed", FALSE)]
    IN  Let1(find_local_version_file(e), LAMBDA k :
        Let1(IF k = 0 THEN <<>> ELSE Trim(e.chain[k].text), LAMBDA local :
        Let1(Trim(e.home.text), LAMBDA home :
            IF e.override # None /\ e.override # <<>>
            THEN Call("env", e.override, {"env"})
            ELSE IF e.home.present /\ ~e.home.readable
                 THEN Fail("home", {"env", "home"})
            ELSE IF e.home.present /\ home # <<>>
                 THEN Call("home", home, {"env", "home"})
            ELSE IF k # 0 /\ ~e.chain[k].readable
                 THEN Fail("local", {"env", "local", "home"})
            ELSE IF k # 0 /\ local # <<>>
                 THEN Call("local", local, {"env", "local", "home"})
            ELSE Call("default", Str_latest, {"env", "local", "home"}))))

\* resolve_version_name: [source, requested, reads, res]; source names the
\* step that returned, reads the sources looked at on the way
resolve_version_name(e, f) ==
    LET Call(src, req, reads) ==
            [source |-> src, requested |-> req, reads |-> reads,
             res |-> resolve_requested(req, e, f)]
        Fail(src, reads) ==
            [source |-> src, requested |-> None, reads |-> reads,
             res |-> Err("read failed", FALSE)]
    IN  Let1(find_local_version_file(e), LAMBDA k :
        Let1(IF k = 0 THEN <<>> ELSE Trim(e.chain[k].text), LAMBDA local :
        Let1(Trim(e.home.text), LAMBDA home :
            IF e.override # None /\ e.override # <<>>
            THEN Call("env", e.override, {"env"})
            ELSE IF k # 0 /\ ~e.chain[k].readable THEN Fail("local", {"env", "local"})
            ELSE IF k # 0 /\ local # <<>> THEN Call("local", local, {"env", "local"})
            ELSE IF e.home.present /\ ~e.home.readable
                 THEN Fail("home", {"env", "local", "home"})
            ELSE IF e.home.present /\ home # <<>>
                 THEN Call("home", home, {"env", "local", "home"})
            ELSE Call("default", Str_latest, {"env", "local", "home"}))))


(***************************************************************************)
(* Installer and trust chain (installer.rs).                               *)
(*                                                                         *)
(* An artifact is [zipok, digest, entries]: zipok says the bytes are a     *)
(* readable zip archive, digest is its SHA-256 as a sequence of bytes,     *)
(* entries the archive's entries [name, data], data a sequence of chunks.  *)
(* A response is [ok, body].                                               *)
(***************************************************************************)
\* env::consts::OS and env::consts::ARCH of the build
ConstsOs == <<"l", "i", "n", "u", "x">>

ConstsArch == <<"x", "8", "6", "_", "6", "4">>

\* map_os
map_os == IF ConstsOs = <<"m", "a", "c", "o", "s">> THEN <<"d", "a", "r", "w", "i", "n">> ELSE ConstsOs

\* map_arch
map_arch ==
    IF ConstsArch = <<"x", "8", "6", "_", "6", "4">> THEN <<"a", "m", "d", "6", "4">>
    ELSE IF ConstsArch = <<"a", "a", "r", "c", "h", "6", "4">> THEN <<"a", "r", "m", "6", "4">>
    ELSE ConstsArch

\* terraform_binary_name (not a windows build)
terraform_binary_name == Str_terraform

\* asset_name: format!("{}_{}_{}_{}.zip", product, version, os, arch)
asset_name(product, version) ==
    product \o <<"_">> \o version \o <<"_">> \o map_os \o <<"_">> \o map_arch \o <<".", "z", "i", "p">>

\* asset_url
asset_url(product, remote, version, asset) ==
    LET base == IF EndsWith(remote, <<"/">>) THEN remote ELSE remote \o <<"/">>
    IN  IF product = Str_terraform THEN base \o version \o <<"/">> \o asset
        ELSE base \o <<"v">> \o version \o <<"/">> \o asset

\* env::var("TFENV_REMOTE").unwrap_or_else(..) of install_version
InstallRemote(e) ==
    IF e.remote # None THEN e.remote
    ELSE IF Product(e) = Str_terraform THEN RemoteTerraform
    ELSE IF Product(e) = Str_opentofu THEN RemoteOpentofuDownload
    ELSE <<>>

CanonicalSums(version) ==
    RemoteTerraform \o version \o <<"/", "t", "e", "r", "r", "a", "f", "o", "r", "m", "_">> \o version \o <<"_", "S", "H", "A", "2", "5", "6", "S", "U", "M", "S">>

\* a mutation of fetch_sha256sums: the candidate is built on the configured remote
SumsUrl_FromRemote(remote, version) ==
    (IF EndsWith(remote, <<"/">>) THEN remote ELSE remote \o <<"/">>)
        \o version \o <<"/", "t", "e", "r", "r", "a", "f", "o", "r", "m", "_">> \o version \o <<"_", "S", "H", "A", "2", "5", "6", "S", "U", "M", "S">>

\* fetch_sha256sums: the URL requested (_remote is not used)
SumsUrl(remote, version) == CanonicalSums(version)

\* fetch_sig: the URL requested (_remote is not used)
SigUrl(remote, version) == CanonicalSums(version) \o <<".", "s", "i", "g">>

HexDigits == <<"0", "1", "2", "3", "4", "5", "6", "7", "8", "9", "a", "b", "c", "d", "e", "f">>

RECURSIVE HexEncode(_)
\* hex::encode: two lower-case hex digits per byte
HexEncode(bytes) ==
    IF bytes = <<>> THEN <<>>
    ELSE <<HexDigits[(Head(bytes) \div 16) + 1], HexDigits[(Head(bytes) % 16) + 1]>>
            \o HexEncode(Tail(bytes))

\* compute_sha256: the artifact's digest, hex encoded
compute_sha256(artifact) == HexEncode(artifact.digest)

\* the scan of the digest list in install_version: the first field of the first
\* line that contains the asset name and has two fields or more, or None
ExpectedDigest(sums, asset) ==
    LET hits == {i \in 1..Len(sums) :
                    Contains(sums[i], asset) /\ Len(SplitWhitespace(sums[i])) >= 2}
    IN  IF hits = {} THEN None
        ELSE SplitWhitespace(sums[CHOOSE i \in hits : \A j \in hits : i <= j])[1]

\* the signature stage is on: TFENV_TRUST_TFENV is "yes" or <tfenv_root>/use-gpgv exists
SigStage(trust) == trust.env = "yes" \/ trust.marker

\* a mutation of File::create + copy: the file is opened without truncation and appended to
WriteBinary_Append(old, data) ==
    [present |-> TRUE, content |-> old.content \o data, exec |-> TRUE]

\* File::create (truncates), copy of the entry, set_permissions(0o755)
WriteBinary(old, data) == [present |-> TRUE, content |-> data, exec |-> TRUE]

\* the index of the first entry the extraction loop takes, or 0
BinaryEntry(artifact) ==
    LET hits == {i \in 1..Len(artifact.entries) :
                    \/ EndsWith(artifact.entries[i].name, terraform_binary_name)
                    \/ EndsWith(artifact.entries[i].name, Str_terraform)}
    IN  IF hits = {} THEN 0 ELSE CHOOSE i \in hits : \A j \in hits : i <= j

\* fs::create_dir_all(versions_dir.join(version)): fails when the name is taken by a file
CanCreateDir(f, version) == version \notin DOMAIN f.tree \/ f.tree[version].dir

WithDir(f, version) ==
    IF version \in DOMAIN f.tree THEN f
    ELSE [f EXCEPT !.tree = (version :> [dir |-> TRUE, bin |-> NoBin]) @@ f.tree]

\* extract_zip_to_version: [st, why, fs]
extract_zip_to_version(artifact, f, version) ==
    IF ~artifact.zipok THEN [st |-> "err", why |-> "failed to read zip archive", fs |-> f]
    ELSE IF ~CanCreateDir(f, version) THEN [st |-> "err", why |-> "create_dir_all", fs |-> f]
    ELSE Let1(WithDir(f, version), LAMBDA g :
         Let1(BinaryEntry(artifact), LAMBDA i :
            IF i = 0
            THEN [st |-> "err", why |-> "terraform binary not found inside archive", fs |-> g]
            ELSE [st |-> "ok", why |-> "",
                  fs |-> [g EXCEPT !.tree[version].bin =
                                WriteBinary(g.tree[version].bin, artifact.entries[i].data)]]))

Fetch(kind, url) == [kind |-> kind, url |-> url]

\* the trust chain of install_version for product terraform, once the asset is
\* downloaded: [st, why, fetches, expected]
VerifyTerraform(version, remote, asset, artifact, sums, sig, trust) ==
    Let1(IF sums.ok THEN ExpectedDigest(sums.body, asset) ELSE None, LAMBDA expected :
        LET sumsFetch == <<Fetch("sums", SumsUrl(remote, version))>>
            sigFetch == <<Fetch("sig", SigUrl(remote, version))>>
            R(st, why, fetches) ==
                [st |-> st, why |-> why, fetches |-> fetches, expected |-> expected]
        IN  IF ~sums.ok THEN R("err", "failed to fetch sha256sums", sumsFetch)
            ELSE IF expected = None THEN R("err", "no checksum found", sumsFetch)
            ELSE IF compute_sha256(artifact) # expected
                 THEN R("err", "sha256 mismatch", sumsFetch)
            ELSE IF ~SigStage(trust) THEN R("ok", "", sumsFetch)
            ELSE IF sig = "fail"
                 THEN R("err", "failed to fetch sha256sig", sumsFetch \o sigFetch)
            ELSE IF sig # "valid"
                 THEN R("err", "gpg verification failed", sumsFetch \o sigFetch)
            ELSE R("ok", "", sumsFetch \o sigFetch))

\* install_version: [st, why, fs, fetches, expected].  e holds TFENV_PRODUCT and
\* TFENV_REMOTE, trust the signature switches; asset, sums and sig are what the
\* network answers to the three requests.
install_version(f, version, e, trust, asset, sums, sig) ==
    LET R(st, why, g, fetches, expected) ==
            [st |-> st, why |-> why, fs |-> g, fetches |-> fetches, expected |-> expected]
    IN  IF version = Str_latest THEN R("err", "latest not implemented", f, <<>>, None)
        ELSE
        Let1(Product(e), LAMBDA product :
        Let1(InstallRemote(e), LAMBDA remote :
        Let1(asset_name(product, version), LAMBDA name :
        Let1(<<Fetch("asset", asset_url(product, remote, version, name))>>, LAMBDA dl :
            IF ~asset.ok THEN R("err", "failed to download", f, dl, None)
            ELSE
            Let1(IF product = Str_terraform
                 THEN VerifyTerraform(version, remote, name, asset.body, sums, sig, trust)
                 ELSE [st |-> "ok", why |-> "", fetches |-> <<>>, expected |-> None],
                 LAMBDA v :
                IF v.st # "ok" THEN R("err", v.why, f, dl \o v.fetches, v.expected)
                ELSE
                \* fs::create_dir_all(&versions_dir), then the extraction
                Let1(extract_zip_to_version(asset.body, [f EXCEPT !.versions = TRUE], version),
                     LAMBDA x : R(x.st, x.why, x.fs, dl \o v.fetches, v.expected)))))))

(***************************************************************************)
(* Inputs of the resolver.                                                 *)
(***************************************************************************)
\* a .terraform-version file: [present, readable, text]
Absent == [present |-> FALSE, readable |-> FALSE, text |-> <<>>]

TextFile(s) == [present |-> TRUE, readable |-> TRUE, text |-> s]

\* present but not readable (a directory of that name, no permission)
Unreadable == [present |-> TRUE, readable |-> FALSE, text |-> <<>>]

V_1_1_0 == <<"1", ".", "1", ".", "0">>

V_1_2_0 == <<"1", ".", "2", ".", "0">>

V_1_2_9 == <<"1", ".", "2", ".", "9">>

V_1_3_0 == <<"1", ".", "3", ".", "0">>

V_1_10_0 == <<"1", ".", "1", "0", ".", "0">>

V_2_0_0 == <<"2", ".", "0", ".", "0">>

V_2_0_0_rc1 == <<"2", ".", "0", ".", "0", "-", "r", "c", "1">>

V_112_0_0 == <<"1", "1", "2", ".", "0", ".", "0">>

Req_latest_1x == <<"l", "a", "t", "e", "s", "t", ":", "^", "1", "\\", ".">>

Req_latest_12x == <<"l", "a", "t", "e", "s", "t", ":", "^", "1", "\\", ".", "2", "\\", ".">>

Req_latest_bad == <<"l", "a", "t", "e", "s", "t", ":", "(">>

Req_v_1_1_0 == <<"v", "1", ".", "1", ".", "0">>

Line(spec) == [decl |-> TRUE, hash |-> FALSE, spec |-> spec]

Commented(spec) == [decl |-> TRUE, hash |-> TRUE, spec |-> spec]

TfFile(lines) == [tf |-> TRUE, lines |-> lines]

OtherFile(lines) == [tf |-> FALSE, lines |-> lines]

Spec_pess_1_2 == <<"~", ">", " ", "1", ".", "2">>

Spec_pess_1_2_3 == <<"~", ">", " ", "1", ".", "2", ".", "3">>

Spec_pess_1 == <<"~", ">", " ", "1">>

Spec_ne_1_3_0 == <<"!", "=", " ", "1", ".", "3", ".", "0">>

Spec_ge_rc == <<">", "=", " ", "1", ".", "2", ".", "0", "-", "r", "c", "1">>

Spec_ge_1_1 == <<">", "=", " ", "1", ".", "1">>

Spec_le_1_2_0 == <<"<", "=", " ", "1", ".", "2", ".", "0">>

Spec_eq_1_2_0 == <<"=", " ", "1", ".", "2", ".", "0">>

\* the working directory's files: none, one declaration, several
TfPool ==
    { <<>>,
      <<TfFile(<<Line(Spec_pess_1_2)>>)>>,
      <<TfFile(<<Line(Spec_pess_1_2_3)>>)>>,
      <<TfFile(<<Line(Spec_pess_1)>>)>>,
      <<TfFile(<<Line(Spec_ne_1_3_0)>>)>>,
      <<TfFile(<<Line(Spec_ge_rc)>>)>>,
      <<TfFile(<<Line(Spec_ge_1_1)>>)>>,
      <<TfFile(<<Line(Spec_le_1_2_0)>>)>>,
      <<TfFile(<<Line(Spec_eq_1_2_0)>>)>>,
      <<OtherFile(<<Line(Spec_ge_1_1)>>)>>,
      <<TfFile(<<Commented(Spec_ge_1_1), Line(Spec_ne_1_3_0)>>)>>,
      <<TfFile(<<Line(Spec_ge_1_1)>>), TfFile(<<Line(Spec_pess_1_2)>>)>>,
      <<TfFile(<<Line(Spec_pess_1_2), Line(Spec_ge_1_1)>>)>> }

Dir == [dir |-> TRUE, bin |-> NoBin]

PlainFile == [dir |-> FALSE, bin |-> NoBin]

\* <config_dir>/versions: missing, empty, and with entries
FsPool ==
    { [versions |-> FALSE, tree |-> <<>>],
      [versions |-> TRUE, tree |-> <<>>],
      [versions |-> TRUE, tree |-> (V_2_0_0 :> Dir) @@ (V_2_0_0_rc1 :> Dir)],
      [versions |-> TRUE,
       tree |-> (V_1_2_0 :> Dir) @@ (V_1_10_0 :> Dir) @@ (V_1_3_0 :> PlainFile)
                    @@ (<<"1", ".", "x">> :> Dir)] }

Href(v) == HrefPrefixTerraform \o v \o <<"/">>

TagHref(v) == HrefTagOpentofu \o v

\* TFENV_PRODUCT, TFENV_REMOTE and what the index request returns
NetPool ==
    { [product |-> None, remote |-> None,
       index |-> [ok |-> TRUE, hrefs |-> {Href(V_1_2_9), Href(V_1_3_0), Href(V_2_0_0), <<".", ".", "/">>}]],
      [product |-> None, remote |-> <<"h", "t", "t", "p", "s", ":", "/", "/", "m", "i", "r", "r", "o", "r", ".", "e", "x", "a", "m", "p", "l", "e", "/", "t", "f", "/">>,
       index |-> [ok |-> TRUE, hrefs |-> {Href(V_1_2_0), Href(V_112_0_0), Href(V_2_0_0_rc1)}]],
      [product |-> None, remote |-> None, index |-> [ok |-> FALSE, hrefs |-> {}]],
      [product |-> <<"O", "p", "e", "n", "T", "o", "f", "u">>, remote |-> None,
       index |-> [ok |-> TRUE, hrefs |-> {TagHref(V_1_2_9), TagHref(V_1_10_0), Href(V_2_0_0)}]] }

AutoPool == {"unset", "true", "false"}

\* requests given through TFENV_TERRAFORM_VERSION (None: unset, <<>>: set, empty)
OverridePool ==
    { None, <<>>, Str_latest, Req_latest_1x, Req_latest_12x, Req_latest_bad,
      Str_latest_allowed, Str_min_required, Req_v_1_1_0 }

\* a .terraform-version file in a directory of the chain, or in the home directory
VersionFilePool ==
    { Absent, Unreadable, TextFile(<<" ", "\n">>), TextFile(<<" ", "1", ".", "2", ".", "0", "\n">>),
      TextFile(<<"l", "a", "t", "e", "s", "t", "-", "a", "l", "l", "o", "w", "e", "d", "\n">>) }

HomeFilePool ==
    { Absent, Unreadable, TextFile(<<"\n">>), TextFile(<<"1", ".", "3", ".", "0", "\n">>),
      TextFile(<<"m", "i", "n", "-", "r", "e", "q", "u", "i", "r", "e", "d", "\n">>) }

Chains == [1..MaxDepth -> VersionFilePool]

Idle ==
    [st |-> "idle", val |-> None, why |-> "", fetched |-> FALSE,
     source |-> "", requested |-> None, reads |-> {}]

NoCall == [st |-> "none"]

NoInstall == [prev |-> NoCall, cur |-> NoCall]

\* The resolver's inputs come in two families: every request against every
\* project, installed set and remote (no version files), and every
\* arrangement of the version sources against a few environments.
InitResolve ==
    /\ \/ /\ \E o \in OverridePool, t \in TfPool, n \in NetPool, a \in AutoPool :
                env = [override |-> o, chain |-> [i \in 1..MaxDepth |-> Absent],
                       home |-> Absent, tf |-> t, auto |-> a,
                       product |-> n.product, remote |-> n.remote, index |-> n.index]
          /\ fs \in FsPool
       \/ /\ \E o \in {None, <<>>, Req_v_1_1_0}, c \in Chains, h \in HomeFilePool,
                t \in {<<>>, <<TfFile(<<Line(Spec_ge_1_1)>>)>>},
                n \in {x \in NetPool : x.remote # None} :
                env = [override |-> o, chain |-> c, home |-> h, tf |-> t, auto |-> "unset",
                       product |-> n.product, remote |-> n.remote, index |-> n.index]
          /\ fs \in {x \in FsPool : DOMAIN x.tree = {V_2_0_0, V_2_0_0_rc1}}
    /\ out = Idle
    /\ net = {}
    /\ last = NoInstall
    /\ proc = <<>>

\* one run of `tfenv version`: resolve_version_name, with the index request logged
Resolve ==
    /\ out.st = "idle"
    /\ \E r \in {resolve_version_name(env, fs)} :
           /\ out' = [st |-> r.res.st, val |-> r.res.val, why |-> r.res.why,
                      fetched |-> r.res.fetched, source |-> r.source,
                      requested |-> r.requested, reads |-> r.reads]
           /\ net' = IF r.res.fetched
                     THEN net \cup {[kind |-> "index", url |-> IndexRemote(env)]}
                     ELSE net
    /\ UNCHANGED <<env, fs, last, proc>>

NextResolve == Resolve

SpecResolve == InitResolve /\ [][NextResolve]_vars


(***************************************************************************)
(* Claims about the resolver, checked under SpecResolve.                   *)
(***************************************************************************)
Resolved == out.st # "idle"

\* the request the call resolved, with a leading v stripped (None: nothing was read)
ChosenRequest == IF out.requested = None THEN None ELSE StripV(out.requested)

\* `latest` or `latest:<regex>`
IsLatestFamily(q) == q = Str_latest \/ StartsWith(q, Str_latest \o <<":">>)

\* the active pattern of a latest-family request
ActivePattern(q) == IF q = Str_latest THEN DefaultRegex ELSE Sub(q, Len(Str_latest) + 2, Len(q))

\* the Installed Version Set restricted to a pattern: directories under
\* versions/ whose name is a version and matches
InstalledMatching(pat) ==
    {n \in DOMAIN fs.tree : fs.tree[n].dir /\ ParseVersion(n).ok /\ IsMatch(pat, n)}

\* C2: resolving `latest` or `latest:<regex>`: if an installed version matches
\* the active pattern, the result is the greatest matching installed version
\* and the remote index is not fetched; the remote index is fetched only when
\* no installed version matches and auto-install is enabled.
C2_LocalBeforeRemote ==
    (Resolved /\ ChosenRequest # None /\ IsLatestFamily(ChosenRequest)) =>
        LET inst == InstalledMatching(ActivePattern(ChosenRequest))
        IN  /\ inst # {} =>
                /\ out.st = "ok"
                /\ out.val \in inst
                /\ \A n \in inst : ~VersionLess(ParseVersion(out.val), ParseVersion(n))
                /\ ~out.fetched
                /\ net = {}
            /\ out.fetched => (inst = {} /\ AutoInstall(env) = "true")
            /\ (net # {}) = out.fetched

\* C2's case: several installed versions match, a greater one is on the remote
C2_Witness ==
    /\ Resolved
    /\ ChosenRequest = Req_latest_1x
    /\ InstalledMatching(ActivePattern(ChosenRequest)) = {V_1_2_0, V_1_10_0}
    /\ AutoInstall(env) = "true"
    /\ Href(V_1_3_0) \in env.index.hrefs
    /\ out.val = V_1_10_0
    /\ ~out.fetched

\* the source resolve_version_name must take its request from, by the order
\* override, nearest ancestor's file, home file, default
ExpectedSource ==
    LET has == {i \in 1..Len(env.chain) : env.chain[i].present}
        k == CHOOSE i \in has : \A j \in has : i <= j
    IN  IF env.override # None /\ Len(env.override) > 0 THEN "env"
        ELSE IF has # {} /\ (~env.chain[k].readable \/ Trim(env.chain[k].text) # <<>>)
             THEN "local"
        ELSE IF env.home.present /\ (~env.home.readable \/ Trim(env.home.text) # <<>>)
             THEN "home"
        ELSE "default"

ExpectedRequest ==
    LET has == {i \in 1..Len(env.chain) : env.chain[i].present}
        k == CHOOSE i \in has : \A j \in has : i <= j
    IN  CASE ExpectedSource = "env" -> env.override
          [] ExpectedSource = "local" ->
                IF env.chain[k].readable THEN Trim(env.chain[k].text) ELSE None
          [] ExpectedSource = "home" ->
                IF env.home.readable THEN Trim(env.home.text) ELSE None
          [] OTHER -> Str_latest

\* C3: the request comes from the first non-empty source in the order
\* TFENV_TERRAFORM_VERSION, nearest ancestor's .terraform-version (trimmed),
\* home .terraform-version (trimmed), "latest"; no lower source is looked at
\* once a higher one is non-empty; a failure on the chosen source is the result.
C3_SourceOrder ==
    Resolved =>
        /\ out.source = ExpectedSource
        /\ out.requested = ExpectedRequest
        /\ out.source = "env" => out.reads = {"env"}
        /\ out.source = "local" => "home" \notin out.reads
        /\ out.requested = None => out.st = "err"
        /\ out.requested # None =>
              LET r == resolve_requested(out.requested, env, fs)
              IN  out.st = r.st /\ out.val = r.val /\ out.why = r.why

\* C3's case: the override is set but empty, the working directory has no file,
\* its parent has one, and so has the home directory
C3_Witness ==
    /\ Resolved
    /\ env.override = <<>>
    /\ ~env.chain[1].present
    /\ env.chain[2].present /\ env.chain[2].readable /\ Trim(env.chain[2].text) = V_1_2_0
    /\ env.home.present /\ env.home.readable /\ Trim(env.home.text) = V_1_3_0
    /\ out.st = "ok"
    /\ out.val = V_1_2_0

Catalog129 == {V_1_2_9, V_1_3_0, V_2_0_0}

\* the situation of C4: latest-allowed, `required_version = "~> 1.2"` declared,
\* no installed version matching ^1\., auto-install on, catalog {1.2.9, 1.3.0, 2.0.0}
C4_Case ==
    /\ Resolved
    /\ ChosenRequest = Str_latest_allowed
    /\ env.tf = <<TfFile(<<Line(Spec_pess_1_2)>>)>>
    /\ InstalledMatching(ActivePattern(Req_latest_1x)) = {}
    /\ AutoInstall(env) = "true"
    /\ env.index.ok
    /\ {v \in {HrefVersion(Product(env), h) : h \in env.index.hrefs} : ParseVersion(v).ok}
            = Catalog129

\* C4 as claimed: the resolution yields 1.2.9.
C4_Original == C4_Case => (out.st = "ok" /\ out.val = V_1_2_9)

\* C4 (amended): with `~> 1.2`, nothing matching installed and auto-install on,
\* latest-allowed maps to latest:^1\. and, against {1.2.9, 1.3.0, 2.0.0},
\* resolves to 1.3.0, the greatest version the pattern matches.
C4_Amended ==
    C4_Case =>
        /\ latest_allowed_to_requested(env.tf) = Req_latest_1x
        /\ out.st = "ok"
        /\ out.val = V_1_3_0
        /\ out.fetched

C4_Witness == C4_Case /\ out.val = V_1_3_0 /\ out.source = "env"

\* C5: resolving latest-allowed fails whenever the constraint mapping yields
\* nothing; it never falls back to plain `latest` or any other version.
C5_NoFallback ==
    (Resolved /\ ChosenRequest = Str_latest_allowed
        /\ latest_allowed_to_requested(env.tf) = None) =>
            out.st = "err"

\* the specifier min_required works on begins with the operator !=
NeSpecifierInUse ==
    LET first == FirstCapture(DeclFileLines(env.tf))
    IN  first # None /\ StartsWith(TrimStart(first), <<"!", "=">>)

\* C6: when the specifier in use begins with `!=`, min_required finds nothing
\* and resolving min-required fails: no version is returned and neither the
\* installed versions nor the remote index are consulted for one.
C6_NeFails ==
    (Resolved /\ ChosenRequest = Str_min_required /\ NeSpecifierInUse) =>
        /\ min_required(env.tf).st = "none"
        /\ out.st = "err"
        /\ out.val = None
        /\ out.why = "min-required could not be determined"
        /\ ~out.fetched
        /\ net = {}

\* C6's case: `!= 1.3.0`, with versions installed and a remote that answers
C6_Witness ==
    /\ Resolved
    /\ ChosenRequest = Str_min_required
    /\ env.tf = <<TfFile(<<Line(Spec_ne_1_3_0)>>)>>
    /\ V_1_2_0 \in DOMAIN fs.tree
    /\ env.index.ok
    /\ AutoInstall(env) = "true"
    /\ out.st = "err"


(***************************************************************************)
(* Inputs of the installer.                                                *)
(***************************************************************************)
Mirror == <<"h", "t", "t", "p", "s", ":", "/", "/", "m", "i", "r", "r", "o", "r", ".", "e", "x", "a", "m", "p", "l", "e", "/", "t", "f">>

InstallVersions == {V_1_2_0, V_1_3_0, Str_latest}

\* TFENV_PRODUCT and TFENV_REMOTE
InstallEnvPool ==
    { [product |-> None, remote |-> None],
      [product |-> None, remote |-> Mirror],
      [product |-> Str_opentofu, remote |-> None] }

\* TFENV_TRUST_TFENV and the use-gpgv marker file
TrustPool ==
    { [env |-> "", marker |-> FALSE],
      [env |-> "yes", marker |-> FALSE],
      [env |-> "", marker |-> TRUE] }

Entry(name, data) == [name |-> name, data |-> data]

Good ==
    [zipok |-> TRUE, digest |-> <<171, 18>>,
     entries |-> <<Entry(<<"L", "I", "C", "E", "N", "S", "E", ".", "t", "x", "t">>, <<"l1">>), Entry(<<"t", "e", "r", "r", "a", "f", "o", "r", "m">>, <<"x1", "x2">>)>>]

Evil ==
    [zipok |-> TRUE, digest |-> <<222, 173>>,
     entries |-> <<Entry(<<"b", "i", "n", "/", "t", "e", "r", "r", "a", "f", "o", "r", "m">>, <<"y1", "y2">>)>>]

NoBinary ==
    [zipok |-> TRUE, digest |-> <<12, 52>>,
     entries |-> <<Entry(<<"R", "E", "A", "D", "M", "E", ".", "m", "d">>, <<"r1">>)>>]

NotZip == [zipok |-> FALSE, digest |-> <<0, 255>>, entries |-> <<>>]

NoResponse == [ok |-> FALSE, body |-> <<>>]

Served(body) == [ok |-> TRUE, body |-> body]

AssetResponses == {NoResponse} \cup {Served(a) : a \in {Good, Evil, NoBinary, NotZip}}

\* a hex digest as a list that writes it in upper case publishes it
UpperHex(s) ==
    [i \in 1..Len(s) |->
        IF \E k \in 1..26 : Lower[k] = s[i]
        THEN Upper[CHOOSE k \in 1..26 : Lower[k] = s[i]]
        ELSE s[i]]

\* a line of a digest list: "<digest>  <filename>"
SumLine(digest, filename) == digest \o <<" ", " ">> \o filename

\* digest lists for a version: each names the digest of Good, of Evil, or of
\* NoBinary; the last writes Good's in upper case
SumsFor(version) ==
    LET a == asset_name(Str_terraform, version)
        other == Str_terraform \o <<"_">> \o version \o <<"_", "d", "a", "r", "w", "i", "n", "_", "a", "r", "m", "6", "4", ".", "z", "i", "p">>
        g == compute_sha256(Good)
        b == compute_sha256(Evil)
        n == compute_sha256(NoBinary)
    IN  { <<SumLine(n, other), SumLine(g, a)>>,
          <<SumLine(b, a)>>,
          <<SumLine(n, a)>>,
          <<SumLine(g, other)>>,
          <<SumLine(b, a \o <<".", "s", "i", "g">>)>>,
          <<SumLine(b, <<"o", "l", "d", "_">> \o a), SumLine(g, a)>>,
          <<a, SumLine(g, a)>>,
          <<SumLine(UpperHex(g), a)>> }

SumsResponses(version) == {NoResponse} \cup {Served(s) : s \in SumsFor(version)}

\* the signature request: it fails, or gpg accepts or rejects what it returned
SigPool == {"fail", "valid", "invalid"}

OldBinary == [present |-> TRUE, content |-> <<"o1">>, exec |-> TRUE]

InstallFsPool ==
    { [versions |-> FALSE, tree |-> <<>>],
      [versions |-> TRUE,
       tree |-> (V_1_2_0 :> [dir |-> TRUE, bin |-> OldBinary]) @@ (V_1_3_0 :> PlainFile)] }

Kinds(fetches) == {fetches[i].kind : i \in 1..Len(fetches)}

InitInstall ==
    /\ env = [product |-> None, remote |-> None, trust |-> [env |-> "", marker |-> FALSE]]
    /\ fs \in InstallFsPool
    /\ out = Idle
    /\ net = {}
    /\ last = NoInstall
    /\ proc = <<>>

TrustOff == [env |-> "", marker |-> FALSE]

TrustOn == [env |-> "yes", marker |-> FALSE]

\* One invocation of `tfenv install <version>`; a second invocation installs
\* the version of the first.  A request the invocation does not make gets no
\* answer, and the signature switches it does not read are left off.
Install ==
    /\ last.prev = NoCall
    /\ \E version \in (IF last.cur = NoCall THEN InstallVersions ELSE {last.cur.version}),
          e \in InstallEnvPool :
       \E asset \in (IF version = Str_latest THEN {NoResponse} ELSE AssetResponses) :
       \E sums \in (IF "sums" \in Kinds(install_version(fs, version, e, TrustOn, asset,
                                                         NoResponse, "fail").fetches)
                    THEN SumsResponses(version) ELSE {NoResponse}) :
       \E asked \in {"sig" \in Kinds(install_version(fs, version, e, TrustOn, asset,
                                                      sums, "fail").fetches)} :
       \E trust \in (IF asked THEN TrustPool ELSE {TrustOff}) :
       \E sig \in (IF asked /\ SigStage(trust) THEN SigPool ELSE {"unasked"}) :
       \E r \in {install_version(fs, version, e, trust, asset, sums, sig)} :
          /\ fs' = r.fs
          /\ env' = [product |-> e.product, remote |-> e.remote, trust |-> trust]
          /\ out' = [st |-> r.st, why |-> r.why]
          /\ net' = {r.fetches[i] : i \in 1..Len(r.fetches)}
          /\ last' = [prev |-> last.cur,
                      cur |-> [st |-> r.st, why |-> r.why, version |-> version,
                               product |-> Product(e), remote |-> InstallRemote(e),
                               asset |-> asset_name(Product(e), version),
                               trust |-> trust, got |-> asset, sums |-> sums, sig |-> sig,
                               fetches |-> r.fetches, expected |-> r.expected,
                               before |-> fs, after |-> r.fs]]
    /\ UNCHANGED proc

NextInstall == Install

SpecInstall == InitInstall /\ [][NextInstall]_vars

(***************************************************************************)
(* Claims about the installer.                                             *)
(***************************************************************************)
Installed == last.cur # NoCall

\* what is at versions/<version> in a file system
VersionDir(f, version) == IF version \in DOMAIN f.tree THEN f.tree[version] ELSE None

\* the digests of the lines of the list whose filename field is exactly the asset
ExactDigests(c) ==
    IF ~c.sums.ok THEN {}
    ELSE {SplitWhitespace(c.sums.body[i])[1] : i \in
            {j \in 1..Len(c.sums.body) :
                /\ Len(SplitWhitespace(c.sums.body[j])) >= 2
                /\ SplitWhitespace(c.sums.body[j])[2] = c.asset}}

\* the artifact passed what the claim requires before anything is written
Verified(c) ==
    /\ c.got.ok
    /\ compute_sha256(c.got.body) \in ExactDigests(c)
    /\ SigStage(c.trust) => c.sig = "valid"

\* C1: for product terraform, an invocation of install_version changes nothing
\* at versions/<version> unless the digest list had an entry for the asset, the
\* artifact's SHA-256 equalled it and, with the signature stage on, the
\* signature verified; otherwise it returns an error and versions/<version> is
\* as it was before the call.
C1_VerifiedBeforeWrite ==
    (Installed /\ last.cur.product = Str_terraform /\ ~Verified(last.cur))
        => /\ last.cur.st = "err"
           /\ VersionDir(last.cur.after, last.cur.version)
                = VersionDir(last.cur.before, last.cur.version)

\* C7: the digest the checksum step compares with comes from a line of the
\* list whose filename field is exactly the asset name, and when the list has
\* no such line the install fails with checksum-not-found.
C7_ExactFilename ==
    (Installed /\ last.cur.product = Str_terraform /\ last.cur.sums.ok)
        => /\ last.cur.expected # None => last.cur.expected \in ExactDigests(last.cur)
           /\ ExactDigests(last.cur) = {}
                => last.cur.st = "err" /\ last.cur.why = "no checksum found"

Urls(c, kind) == {c.fetches[i].url : i \in {j \in 1..Len(c.fetches) : c.fetches[j].kind = kind}}

\* C8: for product terraform the digest list and the signature are requested
\* from a location on the canonical host that is the same for two invocations
\* of one version whatever their TFENV_REMOTE, and the asset is requested from
\* a location under the configured remote.
C8_TrustRootFixed ==
    (Installed /\ last.cur.product = Str_terraform)
        => /\ \A u \in Urls(last.cur, "sums") \cup Urls(last.cur, "sig") :
                /\ StartsWith(u, RemoteTerraform \o last.cur.version)
                /\ last.cur.remote # RemoteTerraform => ~StartsWith(u, last.cur.remote)
           /\ \A u \in Urls(last.cur, "asset") : StartsWith(u, last.cur.remote)
           /\ (last.prev # NoCall /\ last.prev.product = Str_terraform
                    /\ last.prev.version = last.cur.version)
                => \A k \in {"sums", "sig"} :
                      \A u \in Urls(last.prev, k), w \in Urls(last.cur, k) : u = w

\* two invocations of one version that differ in TFENV_REMOTE and both request
\* the digest list and the signature
C8_Witness ==
    /\ last.prev # NoCall
    /\ last.prev.product = Str_terraform /\ last.cur.product = Str_terraform
    /\ last.prev.version = last.cur.version
    /\ last.prev.remote # last.cur.remote
    /\ Urls(last.prev, "sig") # {} /\ Urls(last.cur, "sig") # {}
    /\ Urls(last.prev, "asset") # Urls(last.cur, "asset")

BinaryAt(f, version) ==
    IF version \in DOMAIN f.tree /\ f.tree[version].dir THEN f.tree[version].bin ELSE NoBin

\* the invocation repeats the one before it: same version and product, the
\* same artifact, digest list and signature answer, the same switches
Repeats(c, p) ==
    /\ p # NoCall
    /\ c.version = p.version /\ c.product = p.product
    /\ c.got = p.got /\ c.sums = p.sums /\ c.sig = p.sig /\ c.trust = p.trust

\* C9: an invocation that repeats a successful one succeeds, and the binary at
\* versions/<version>/<binary> has the content and the executable permission
\* it had after the first.
C9_Idempotent ==
    (Installed /\ Repeats(last.cur, last.prev) /\ last.prev.st = "ok")
        => /\ last.cur.st = "ok"
           /\ BinaryAt(last.cur.after, last.cur.version).present
           /\ BinaryAt(last.cur.after, last.cur.version)
                = BinaryAt(last.prev.after, last.prev.version)
           /\ BinaryAt(last.cur.after, last.cur.version).exec

\* a verified terraform install over an older binary, repeated
C9_Witness ==
    /\ Installed /\ Repeats(last.cur, last.prev) /\ last.prev.st = "ok"
    /\ last.cur.product = Str_terraform
    /\ BinaryAt(last.prev.before, last.prev.version) = OldBinary
    /\ BinaryAt(last.cur.after, last.cur.version).content = <<"x1", "x2">>

(***************************************************************************)
(* Two invocations installing one version into one config directory.       *)
(* Each has downloaded (and, for terraform, verified) its artifact and runs *)
(* the file-system steps of install_version and extract_zip_to_version:     *)
(* the two create_dir_all, File::create, the writes of io::copy at the      *)
(* handle's own offset, and set_permissions.                                *)
(***************************************************************************)
Procs == {"A", "B"}

RaceVersion == V_1_2_0

Short ==
    [zipok |-> TRUE, digest |-> <<7, 7>>, entries |-> <<Entry(<<"t", "e", "r", "r", "a", "f", "o", "r", "m">>, <<"z1">>)>>]

RaceArtifacts == {Good, Evil, Short}

\* the bytes io::copy will write
Payload(artifact) == artifact.entries[BinaryEntry(artifact)].data

\* the bytes between the end of a file and a write beyond it
Hole == "00"

\* write(2) of one chunk at offset off (counted in chunks)
WriteAt(content, off, chunk) ==
    [i \in 1..(IF Len(content) > off THEN Len(content) ELSE off + 1) |->
        IF i = off + 1 THEN chunk
        ELSE IF i <= Len(content) THEN content[i]
        ELSE Hole]

InitRace ==
    /\ env = [product |-> Str_opentofu, remote |-> None, trust |-> TrustOff]
    /\ fs \in { [versions |-> FALSE, tree |-> <<>>],
                [versions |-> TRUE,
                 tree |-> (RaceVersion :> [dir |-> TRUE, bin |-> OldBinary])] }
    /\ out = Idle
    /\ net = {}
    /\ last = NoInstall
    /\ proc \in [Procs -> {[pc |-> "mkdir", artifact |-> a, off |-> 0] : a \in RaceArtifacts}]

\* fs::create_dir_all(&versions_dir) and, in extract_zip_to_version,
\* fs::create_dir_all(out_dir)
MkDirs(p) ==
    /\ proc[p].pc = "mkdir"
    /\ fs' = WithDir([fs EXCEPT !.versions = TRUE], RaceVersion)
    /\ proc' = [proc EXCEPT ![p].pc = "create"]
    /\ UNCHANGED <<env, out, net, last>>

\* File::create(&out_path): the file is created empty, or truncated keeping its mode
Create(p) ==
    /\ proc[p].pc = "create"
    /\ fs' = [fs EXCEPT !.tree[RaceVersion].bin =
                [present |-> TRUE, content |-> <<>>, exec |-> @.present /\ @.exec]]
    /\ proc' = [proc EXCEPT ![p].pc = "copy"]
    /\ UNCHANGED <<env, out, net, last>>

\* io::copy: one write at the handle's offset, or the end of the entry
Copy(p) ==
    /\ proc[p].pc = "copy"
    /\ IF proc[p].off < Len(Payload(proc[p].artifact))
       THEN /\ fs' = [fs EXCEPT !.tree[RaceVersion].bin.content =
                        WriteAt(@, proc[p].off, Payload(proc[p].artifact)[proc[p].off + 1])]
            /\ proc' = [proc EXCEPT ![p].off = @ + 1]
       ELSE /\ proc' = [proc EXCEPT ![p].pc = "chmod"]
            /\ UNCHANGED fs
    /\ UNCHANGED <<env, out, net, last>>

\* fs::set_permissions(&out_path, 0o755), then Ok(())
Chmod(p) ==
    /\ proc[p].pc = "chmod"
    /\ fs' = [fs EXCEPT !.tree[RaceVersion].bin.exec = TRUE]
    /\ proc' = [proc EXCEPT ![p].pc = "done"]
    /\ UNCHANGED <<env, out, net, last>>

NextRace == \E p \in Procs : MkDirs(p) \/ Create(p) \/ Copy(p) \/ Chmod(p)

SpecRace == InitRace /\ [][NextRace]_vars

BothDone == \A p \in Procs : proc[p].pc = "done"

\* C10: when two invocations install one version concurrently and both report
\* success, the binary is executable and holds the complete content written
\* by one of them, never a truncation or a mixture of the two.
C10_LastWriterWins ==
    (DOMAIN proc = Procs /\ BothDone)
        => /\ fs.tree[RaceVersion].bin.exec
           /\ \E p \in Procs : fs.tree[RaceVersion].bin.content = Payload(proc[p].artifact)

(***************************************************************************)
(* Claims about the constraint extractor, checked under SpecResolve.       *)
(***************************************************************************)
\* the specifier min_required works on holds a numeric version token and does
\* not begin with the operator !=
NumericSpecifierInUse ==
    LET first == FirstCapture(DeclFileLines(env.tf))
    IN  /\ first # None
        /\ \E i \in 1..Len(first) : IsDigit(first[i])
        /\ ~StartsWith(TrimStart(first), <<"!", "=">>)

\* C11: for every specifier with a numeric version token whose operator is not
\* `!=`, prerelease suffixes included, min_required terminates and returns a
\* string of the form major.minor.patch.
C11_PadTerminates ==
    (Resolved /\ ChosenRequest = Str_min_required /\ NumericSpecifierInUse) =>
        /\ out.st = "ok"
        /\ IsMatch(DefaultRegex, out.val)

\* the declaration files of the working directory that hold an uncommented
\* required_version declaration, by their place in the enumeration
DeclaringFiles ==
    {i \in 1..Len(env.tf) :
        env.tf[i].tf /\ \E j \in 1..Len(env.tf[i].lines) :
                            env.tf[i].lines[j].decl /\ ~env.tf[i].lines[j].hash}

\* the working directory reduced to the first declaration of its first declaring file
FirstDeclarationOnly ==
    LET i == CHOOSE x \in DeclaringFiles : \A y \in DeclaringFiles : x <= y
        hits == {j \in 1..Len(env.tf[i].lines) :
                    env.tf[i].lines[j].decl /\ ~env.tf[i].lines[j].hash}
        j == CHOOSE x \in hits : \A y \in hits : x <= y
    IN  <<TfFile(<<env.tf[i].lines[j]>>)>>

\* C12: with several declaration files each holding a required_version
\* declaration, min-required and latest-allowed resolve as they would with
\* the first declaration of the first such file alone; a later file's
\* declaration never replaces it.
C12_FirstDeclarationWins ==
    (Resolved /\ Cardinality(DeclaringFiles) >= 2
        /\ ChosenRequest \in {Str_min_required, Str_latest_allowed}) =>
        /\ min_required(env.tf) = min_required(FirstDeclarationOnly)
        /\ latest_allowed_to_requested(env.tf) = latest_allowed_to_requested(FirstDeclarationOnly)
        /\ LET r == resolve_requested(out.requested, [env EXCEPT !.tf = FirstDeclarationOnly], fs)
           IN  out.st = r.st /\ out.val = r.val

\* the specifier the latest-allowed mapping works on
AllowedSpecifier == SpecLine(env.tf, NoLine).spec

\* that specifier is `~>` with a numeric token of two components or more
PessimisticInUse ==
    /\ SpecLine(env.tf, NoLine).decl
    /\ StartsWith(TrimStart(AllowedSpecifier), <<"~", ">">>)
    /\ Contains(VersionNum(AllowedSpecifier), <<".">>)

\* the token without its rightmost component, followed by a dot
LiteralPrefix ==
    LET T == VersionNum(AllowedSpecifier)
    IN  Sub(T, 1, RFind(T, <<".">>) - 1) \o <<".">>

\* C14: for a `~>` specifier with numeric token T, every version latest-allowed
\* resolves to begins with T less its rightmost component, followed by a dot,
\* the prefix's own dots being literal dots (for `~> 1.2.3` only versions
\* starting with `1.2.`; never 112.0.0).
C14_LiteralPrefix ==
    (Resolved /\ ChosenRequest = Str_latest_allowed /\ PessimisticInUse /\ out.st = "ok")
        => StartsWith(out.val, LiteralPrefix)

(***************************************************************************)
(* Further claims about the installer, checked under SpecInstall.          *)
(***************************************************************************)
\* the checksum step of the invocation compared the artifact's digest with a
\* digest of the list and let the install go on
ChecksumAccepted(c) ==
    c.why \notin {"no checksum found", "sha256 mismatch", "failed to fetch sha256sums"}

\* C13: the checksum comparison is case-normalized: an artifact whose SHA-256
\* equals the digest taken from the list is accepted whether the list writes
\* the hex in lower or upper case, and is rejected only when the two differ as
\* byte values.
C13_CaseNormalized ==
    (Installed /\ last.cur.product = Str_terraform /\ last.cur.got.ok
        /\ last.cur.sums.ok /\ last.cur.expected # None) =>
        (ChecksumAccepted(last.cur)
            <=> ToLowercase(last.cur.expected) = ToLowercase(compute_sha256(last.cur.got.body)))

(***************************************************************************)
(* `tfenv exec` (main.rs: run_exec) beside an install of the same version   *)
(* that may be interrupted at any of its file-system steps.                 *)
(***************************************************************************)
\* the installing process beside the exec invocation
Installers == {"A"}

\* what the exec invocation's own download returns (product opentofu: no verification)
ExecAssetPool == {NoResponse, Served(Good), Served(NoBinary)}

InitExec ==
    /\ \E a \in {"unset", "false"} :
          env = [override |-> RaceVersion, chain |-> [i \in 1..MaxDepth |-> Absent],
                 home |-> Absent, tf |-> <<>>, auto |-> a, product |-> Str_opentofu,
                 remote |-> None, index |-> [ok |-> FALSE, hrefs |-> {}]]
    /\ fs \in { [versions |-> FALSE, tree |-> <<>>],
                [versions |-> TRUE, tree |-> (RaceVersion :> Dir)],
                [versions |-> TRUE,
                 tree |-> (RaceVersion :> [dir |-> TRUE, bin |-> OldBinary])] }
    /\ out = Idle
    /\ net = {}
    /\ last = NoInstall
    /\ proc \in [Installers -> {[pc |-> "mkdir", artifact |-> a, off |-> 0] : a \in {Good, Short}}]

\* the installing process is killed (signal, power loss) between two of its steps
Interrupt(p) ==
    /\ proc[p].pc \in {"mkdir", "create", "copy", "chmod"}
    /\ proc' = [proc EXCEPT ![p].pc = "killed"]
    /\ UNCHANGED <<env, fs, out, net, last>>

\* a process holds the binary open for writing: from File::create until
\* extract_zip_to_version returns and outfile is dropped
OpenForWrite == \E p \in DOMAIN proc : proc[p].pc \in {"copy", "chmod"}

\* Command::new(tf_path).status() on a path that exists: execve refuses a file
\* open for writing (ETXTBSY), one without the executable bit (EACCES) and an
\* empty one (ENOEXEC); anything else is loaded and run
Spawn(bin) ==
    IF OpenForWrite THEN [st |-> "err", why |-> "failed to execute terraform: text file busy"]
    ELSE IF ~bin.exec THEN [st |-> "err", why |-> "failed to execute terraform: permission denied"]
    ELSE IF bin.content = <<>> THEN [st |-> "err", why |-> "failed to execute terraform: exec format error"]
    ELSE [st |-> "ran", why |-> ""]

\* tf_path.exists()
Exists(f, version) == BinaryAt(f, version).present

\* run_exec: [st, why, fs, fetches, installed]
run_exec(e, f, asset) ==
    LET R(st, why, g, fetches, installed) ==
            [st |-> st, why |-> why, fs |-> g, fetches |-> fetches, installed |-> installed]
    IN  Let1(resolve_version_name(e, f).res, LAMBDA v :
            IF v.st # "ok" THEN R("err", v.why, f, <<>>, FALSE)
            ELSE IF Exists(f, v.val)
                 THEN Let1(Spawn(BinaryAt(f, v.val)), LAMBDA s : R(s.st, s.why, f, <<>>, FALSE))
            ELSE IF AutoInstall(e) = "true"
                 THEN Let1(install_version(f, v.val, e, TrustOff, asset, NoResponse, "unasked"),
                           LAMBDA i :
                        IF i.st # "ok" THEN R("err", i.why, i.fs, i.fetches, FALSE)
                        ELSE Let1(Spawn(BinaryAt(i.fs, v.val)), LAMBDA s :
                                R(s.st, s.why, i.fs, i.fetches, TRUE)))
            ELSE R("err", "not installed", f, <<>>, FALSE))

\* One invocation of `tfenv exec`.
Exec ==
    /\ out.st = "idle"
    /\ \E asset \in (IF ~Exists(fs, RaceVersion) /\ AutoInstall(env) = "true"
                     THEN ExecAssetPool ELSE {NoResponse}) :
       \E r \in {run_exec(env, fs, asset)} :
          /\ fs' = r.fs
          /\ out' = [st |-> r.st, why |-> r.why, installed |-> r.installed,
                     found |-> BinaryAt(fs, RaceVersion),
                     image |-> BinaryAt(r.fs, RaceVersion), got |-> asset]
          /\ net' = net \cup {r.fetches[i] : i \in 1..Len(r.fetches)}
    /\ UNCHANGED <<env, last, proc>>

NextExec ==
    \E p \in Installers : MkDirs(p) \/ Create(p) \/ Copy(p) \/ Chmod(p) \/ Interrupt(p) \/ Exec

SpecExec == InitExec /\ [][NextExec]_vars

\* the binary images an install of the version writes when it runs to its end
CompleteImages ==
    {OldBinary.content} \cup {Payload(a) : a \in {Good, Evil, Short}}

\* C15: exec runs the binary only when versions/<version>/<binary> is present
\* with its complete content and executable permission, never a file that an
\* unfinished install left behind; when the binary was absent, it is run only
\* after exec installed it.
C15_ExecOnlyInstalled ==
    (DOMAIN proc = Installers /\ out.st = "ran") =>
        /\ out.image.present /\ out.image.exec
        /\ out.image.content \in CompleteImages
        /\ ~out.found.present => out.installed
====
